---- MODULE Spec2Model ----
(***************************************************************************)
(* Case-study navigators, Projects section and About accordion of the      *)
(* portfolio site.                                                         *)
(*                                                                         *)
(*   AdminCaseStudy.jsx  frame-per-image navigator  (variant "admin")      *)
(*   UserCaseStudy.jsx   panel-per-feature navigator (variant "user")      *)
(*   unnamed/part_000    Projects, the parent of both navigators           *)
(*   unnamed/part_001    AboutMe, with the bio accordion                   *)
(*                                                                         *)
(* SpecFrames  the frame list built from a content tree (the useMemo of    *)
(*             AdminCaseStudy), over every tree within the bounds.         *)
(* Spec        one navigator, mounted and unmounted by its parent: its     *)
(*             React state, the scroll container the browser keeps for     *)
(*             it, the listeners it has registered, and the events that    *)
(*             reach its handlers.                                         *)
(* SpecPage    the page: the Projects section that owns both navigators,   *)
(*             its modal flags and the body scroll lock the modals         *)
(*             share, and the accordion of the About section.              *)
(* SpecScroll  the scroll handler of one navigator under the scheduling    *)
(*             the browser guarantees (queued events are dispatched,       *)
(*             timers that are due fire).                                  *)
(* SpecZoom    clicks on and around the images of a navigator that is      *)
(*             opened, closed and unmounted, with the 10 ms timer and      *)
(*             the click listener on document of UserCaseStudy.            *)
(* SpecNull    a navigator whose caseStudy prop is null, with every        *)
(*             navigation request made of it.                              *)
(*                                                                         *)
(* What the browser and React contribute to Spec:                          *)
(*  - state updates of one handler are rendered, and the effects whose     *)
(*    dependencies changed re-run, before the next event is handled;       *)
(*  - an effect that does not re-run keeps the closure it registered       *)
(*    (keyVertical, keyFrame);                                             *)
(*  - ../utils/throttle is not part of the sources read here: it is taken  *)
(*    to run the body at most once per 100 ms window, a call inside the    *)
(*    window being held and run with the latest offsets when the window    *)
(*    ends (inThrottle, held);                                             *)
(*  - scroll offsets are whole pixels inside the container's scroll range; *)
(*    a change of offset queues one scroll event (scrollPending), which    *)
(*    the listener receives later;                                         *)
(*  - scrollTo({behavior: 'smooth'}) moves the offset in steps towards     *)
(*    its clamped destination (scrollTarget);                              *)
(*  - the 300 ms exit animation of a closing modal is not represented:     *)
(*    closing removes the container at once.                               *)
(***************************************************************************)
EXTENDS Integers, Sequences, FiniteSets, TLC

\* ------------------------------------------------------------------ bounds
MaxPanels == 3
MaxMockups == 3
ViewportHeight == 768
MaxTimers == 2

\* --------------------------------------------------------------- constants
\* window.innerWidth < 1025 selects the vertical layout (AdminCaseStudy)
AdminBreakpoint == 1025
\* window.innerWidth < 641 selects the vertical layout (UserCaseStudy)
UserBreakpoint == 641

VARIABLES
    variant,          \* "admin" | "user": which component is mounted
    caseStudy,        \* the caseStudy prop (a content tree, or NullTree)
    frames,           \* AdminCaseStudy: the memoized frame list
    isOpen,           \* the isOpen prop
    currentFrame,     \* currentFrame (admin) / currentPanel (user)
    zoomed,           \* zoomedFrame: <<>> | <<frameIndex>>;
                      \* activeImageIndex: <<>> | <<panel, mockup>>
    innerWidth,       \* window.innerWidth
    isVerticalLayout, \* the isVerticalLayout state
    scrollLeft,       \* container.scrollLeft
    scrollTop,        \* container.scrollTop
    scrollTarget,     \* destination of a smooth scroll in flight, or NoTarget
    scrollPending,    \* a scroll event is queued for the container
    inThrottle,       \* the throttled handler is inside its 100 ms window
    held,             \* a call made inside the window waits for its end
    recent,           \* the body of handleScroll ran less than 100 ms ago
                      \* (history)
    keyVertical,      \* isVerticalLayout as captured by the registered
                      \* keydown handler's navigateTo closure
    keyFrame,         \* currentFrame / currentPanel as captured by the
                      \* registered keydown handler
    bodyOverflow,     \* document.body.style.overflow
    ev,               \* the last event handled (history)
    nav,              \* the last navigateTo request still being followed
                      \* by the browser's scroll (history)
    keydownListeners, \* handleKeyDown listeners registered on window
    resizeListeners,  \* checkLayout listeners registered on window
    scrollListeners,  \* handleScroll listeners registered on the container
    openSection,      \* AboutMe: the open accordion section, <<>> for null
    mounted,          \* the navigators ("admin", "user") that are mounted
    userCaseStudyOpen,  \* Projects: isOpen of its UserCaseStudy
    adminCaseStudyOpen, \* Projects: isOpen of its AdminCaseStudy
    projectModalOpen,   \* Projects: isOpen of its ProjectModal
    currentProject,     \* Projects: the project shown, <<>> for null
    projectTimers,      \* Projects: pending setTimeout callbacks of
                        \* closeProjectModal
    docClick          \* UserCaseStudy's click listener on document:
                      \* listener  "none" | "timer" | "on", the effect that
                      \*           last ran has registered nothing, waits
                      \*           for its 10 ms timer, or has its
                      \*           handleClick registered;
                      \* stale     pending timers of effects already
                      \*           cleaned up;
                      \* leaked    a handleClick registered by such a
                      \*           timer, which no cleanup removes

vars == <<variant, caseStudy, frames, isOpen, currentFrame, zoomed, innerWidth,
          isVerticalLayout, scrollLeft, scrollTop, scrollTarget, scrollPending,
          inThrottle, held, recent, keyVertical, keyFrame, bodyOverflow, ev,
          nav, keydownListeners,
          mounted,
          userCaseStudyOpen, adminCaseStudyOpen, projectModalOpen,
          currentProject, projectTimers, docClick, resizeListeners,
          scrollListeners, openSection>>

\* the state of the Projects section
projects == <<userCaseStudyOpen, adminCaseStudyOpen, projectModalOpen,
              currentProject, projectTimers>>

\* ------------------------------------------------------------ content tree
\* caseStudy == null
NullTree == [null |-> TRUE, title |-> "", description |-> "", panels |-> <<>>]

\* mockup j (1-based here) of panel p: { src, alt }
Mockup(p, j) == [src |-> <<p, j>>, alt |-> "Mockup"]

\* panel p with m mockups: { label, title, description, mockups }
Panel(p, m) ==
    [label |-> <<"Feature", p>>, title |-> <<"Title", p>>,
     description |-> <<"Description", p>>,
     mockups |-> [j \in 1..m |-> Mockup(p, j)]]

\* a content tree whose panel p has counts[p] mockups
Tree(t, counts) ==
    [null |-> FALSE, title |-> t, description |-> <<"About", t>>,
     panels |-> [p \in 1..Len(counts) |-> Panel(p, counts[p])]]

Titles == {"ReviseGPT", "Professor"}

CountSeqs == UNION {[1..n -> 0..MaxMockups] : n \in 0..MaxPanels}

Trees == {Tree(t, c) : t \in Titles, c \in CountSeqs} \cup {NullTree}

\* ------------------------------------------------- frames (AdminCaseStudy)
\* allFrames.push({type: 'intro', ...})
IntroFrame(cs) ==
    [type |-> "intro", title |-> cs.title, description |-> cs.description]

\* ContentFrame with imageNumber and the last-in-panel test one off
ContentFrame_OffByOne(panel, panelIndex, mockupIndex) ==
    [type |-> "content",
     panelLabel |-> panel.label,
     panelTitle |-> panel.title,
     description |-> panel.description,
     mockup |-> panel.mockups[mockupIndex + 1],
     imageNumber |-> mockupIndex,
     totalImages |-> Len(panel.mockups),
     panelIndex |-> panelIndex,
     isFirstInPanel |-> (mockupIndex = 0),
     isLastInPanel |-> (mockupIndex = Len(panel.mockups))]

\* the object pushed for mockup mockupIndex of panel panelIndex (both 0-based,
\* as in the source; the sequences of the model are 1-based)
ContentFrame(panel, panelIndex, mockupIndex) ==
    [type |-> "content",
     panelLabel |-> panel.label,
     panelTitle |-> panel.title,
     description |-> panel.description,
     mockup |-> panel.mockups[mockupIndex + 1],
     imageNumber |-> mockupIndex + 1,
     totalImages |-> Len(panel.mockups),
     panelIndex |-> panelIndex,
     isFirstInPanel |-> (mockupIndex = 0),
     isLastInPanel |-> (mockupIndex = Len(panel.mockups) - 1)]

\* PushMockups that pushes a frame only for the first mockup of a panel
PushMockups_FirstOnly(allFrames, panel, panelIndex, mockupIndex) ==
    IF mockupIndex >= Len(panel.mockups) THEN allFrames
    ELSE Append(allFrames, ContentFrame(panel, panelIndex, mockupIndex))

\* panel.mockups.forEach((mockup, mockupIndex) => allFrames.push(...)),
\* from mockupIndex on
RECURSIVE PushMockups(_, _, _, _)
PushMockups(allFrames, panel, panelIndex, mockupIndex) ==
    IF mockupIndex >= Len(panel.mockups) THEN allFrames
    ELSE PushMockups(Append(allFrames,
                            ContentFrame(panel, panelIndex, mockupIndex)),
                     panel, panelIndex, mockupIndex + 1)

\* caseStudy.panels.forEach((panel, panelIndex) => ...), from panelIndex on
RECURSIVE PushPanels(_, _, _)
PushPanels(allFrames, panels, panelIndex) ==
    IF panelIndex >= Len(panels) THEN allFrames
    ELSE PushPanels(PushMockups(allFrames, panels[panelIndex + 1],
                                panelIndex, 0),
                    panels, panelIndex + 1)

\* BuildFrames that pushes the intro frame after the content frames
BuildFrames_IntroLast(cs) ==
    IF cs.null THEN <<>>
    ELSE Append(PushPanels(<<>>, cs.panels, 0), IntroFrame(cs))

\* const frames = useMemo(() => { ... }, [caseStudy])
BuildFrames(cs) ==
    IF cs.null THEN <<>>
    ELSE PushPanels(<<IntroFrame(cs)>>, cs.panels, 0)

\* ---------------------------------------------------------------- SpecFrames
NoTarget == [active |-> FALSE, top |-> FALSE, pos |-> 0]

NoNav == [idx |-> -1, top |-> FALSE, pos |-> 0]

\* in place of a request: the user has scrolled the container since
UserScrolled == [idx |-> -2, top |-> FALSE, pos |-> 0]

\* the event just handled: its kind, the index or image it was called with,
\* the key pressed, and (for a zoom toggle) the zoomed image before it
Event(op, arg, key, pre) == [op |-> op, arg |-> arg, key |-> key, pre |-> pre]

\* no document click listener, no timer that would register one
NoDocClick == [listener |-> "none", stale |-> 0, leaked |-> FALSE]

\* AboutMe as first rendered: useState(0)
AboutIdle == openSection = <<0>>

\* Projects as first rendered: every modal closed, no project chosen
ProjectsIdle ==
    /\ userCaseStudyOpen = FALSE
    /\ adminCaseStudyOpen = FALSE
    /\ projectModalOpen = FALSE
    /\ currentProject = <<>>
    /\ projectTimers = 0

\* the component as mounted by Projects: closed, first frame, nothing zoomed
Mounted(v, cs, w, vert) ==
    /\ variant = v
    /\ caseStudy = cs
    /\ frames = IF v = "admin" THEN BuildFrames(cs) ELSE <<>>
    /\ isOpen = FALSE
    /\ currentFrame = 0
    /\ zoomed = <<>>
    /\ innerWidth = w
    /\ isVerticalLayout = vert
    /\ scrollLeft = 0
    /\ scrollTop = 0
    /\ scrollTarget = NoTarget
    /\ scrollPending = FALSE
    /\ inThrottle = FALSE
    /\ held = FALSE
    /\ recent = FALSE
    /\ keyVertical = FALSE
    /\ keyFrame = 0
    /\ bodyOverflow = "auto"
    /\ ev = Event("mount", <<>>, "", <<>>)
    /\ nav = NoNav
    /\ keydownListeners = 0
    /\ resizeListeners = 1
    /\ scrollListeners = 0
    /\ docClick = NoDocClick
    /\ ProjectsIdle
    /\ AboutIdle

InitFrames ==
    /\ \E cs \in Trees : Mounted("admin", cs, AdminBreakpoint, FALSE)
    /\ mounted = {"admin"}

\* the caseStudy prop changes: the memo recomputes in the same render
SetCaseStudy(cs) ==
    /\ cs # caseStudy
    /\ caseStudy' = cs
    /\ frames' = BuildFrames(cs)
    /\ ev' = Event("caseStudy", <<>>, "", <<>>)
    /\ UNCHANGED <<openSection, docClick, resizeListeners, scrollListeners,
                   mounted, projects, keydownListeners, variant, isOpen,
                   currentFrame, zoomed, innerWidth, isVerticalLayout,
                   scrollLeft, scrollTop, scrollTarget, scrollPending,
                   inThrottle, held, recent, keyVertical, keyFrame,
                   bodyOverflow, nav>>

NextFrames == \E cs \in Trees : SetCaseStudy(cs)

SpecFrames == InitFrames /\ [][NextFrames]_vars

\* ------------------------------------------------------ layout and geometry
\* the width below which the variant switches to the vertical layout
Breakpoint(v) == IF v = "admin" THEN AdminBreakpoint ELSE UserBreakpoint

\* checkLayout comparing with <= in place of <
checkLayout_Inclusive(v, w) == w <= Breakpoint(v)

\* checkLayout: setIsVerticalLayout(window.innerWidth < breakpoint)
checkLayout(v, w) == w < Breakpoint(v)

\* the viewport widths tried: just below, at and just above the breakpoint
Widths(v) == {Breakpoint(v) - 1, Breakpoint(v), Breakpoint(v) + 1}

\* frames.length, the bound of navigateToFrame
framesLength == Len(frames)

\* caseStudy.panels.length + 1, the bound of navigateToPanel
totalPanels == Len(caseStudy.panels) + 1

\* number of navigable positions of the mounted variant
NavCount == IF variant = "admin" THEN framesLength ELSE totalPanels

\* the modal's markup, and with it scrollContainerRef.current, exists:
\* `if (!caseStudy) return null` and `{isOpen && (...)}`
Rendered == isOpen /\ ~caseStudy.null

\* the container fills the viewport (fixed inset-0, w-full h-full)
offsetWidth == innerWidth
offsetHeight == ViewportHeight

\* every child of the container is one container extent along the scroll
\* axis (min-w-full / min-h-full, w-full h-full, snap-start), so the browser
\* keeps the offset of the scroll axis within [0, (children - 1) * extent] and
\* the offset of the other axis at 0
MaxScroll(top, vert, w) ==
    IF top = vert
    THEN (NavCount - 1) * (IF top THEN offsetHeight ELSE w)
    ELSE 0

Clamp(x, lo, hi) == IF x < lo THEN lo ELSE IF x > hi THEN hi ELSE x

\* offsets at which scroll events are observed: every snap point and, between
\* two snap points, the two offsets around the half-way point
SampleOffsets(extent, n) ==
    {k * extent + r : k \in 0..(n - 2),
                      r \in {0, (extent - 1) \div 2, (extent + 1) \div 2}}
        \cup {(n - 1) * extent}

\* Math.round(a / b) for a >= 0, b > 0: halves round up
MathRound(a, b) == (2 * a + b) \div (2 * b)

\* ------------------------------------------------------------- React state
\* The keydown effect re-registers handleKeyDown when one of its dependencies
\* [isOpen, currentFrame, zoomedFrame (admin only), onClose, caseStudy]
\* changes; the handler then calls the navigateTo of that render. The result
\* is the isVerticalLayout that the registered handler's navigateTo sees.
KeyCapture(newOpen, newFrame, newZoom, newVert) ==
    IF ~newOpen \/ caseStudy.null THEN FALSE
    ELSE IF \/ newOpen # isOpen
            \/ newFrame # currentFrame
            \/ (variant = "admin" /\ newZoom # zoomed)
         THEN newVert
         ELSE keyVertical

\* The currentFrame that the registered handleKeyDown sees, were currentFrame
\* missing from the dependencies of the keydown effect
FrameCapture_Stale(newOpen, newFrame, newZoom) ==
    IF ~newOpen \/ caseStudy.null THEN 0
    ELSE IF \/ newOpen # isOpen
            \/ (variant = "admin" /\ newZoom # zoomed)
         THEN newFrame
         ELSE keyFrame

\* The currentFrame / currentPanel that the registered handleKeyDown sees:
\* the one of the render in which the keydown effect last ran.
FrameCapture(newOpen, newFrame, newZoom) ==
    IF ~newOpen \/ caseStudy.null THEN 0
    ELSE IF \/ newOpen # isOpen
            \/ newFrame # currentFrame
            \/ (variant = "admin" /\ newZoom # zoomed)
         THEN newFrame
         ELSE keyFrame

\* The keydown effect after a render with isOpen = newOpen: the cleanup
\* removes the handler the previous run registered, if it registered one
\* (`if (!isOpen || !caseStudy) return`), and the body registers the new one.
KeyEffect(newOpen) ==
    keydownListeners
        - (IF isOpen /\ ~caseStudy.null THEN 1 ELSE 0)
        + (IF newOpen /\ ~caseStudy.null THEN 1 ELSE 0)

\* the scroll-listener effect whose cleanup is missing
ScrollEffect_NoCleanup(newOpen) ==
    scrollListeners + (IF newOpen /\ ~caseStudy.null THEN 1 ELSE 0)

\* The scroll-listener effect after a render with isOpen = newOpen, or with
\* a new handleScroll: the cleanup removes the handler the previous run
\* added, if it added one (`if (!container || !isOpen) return`; the
\* container exists when the modal's markup does), and the body adds the
\* current handleScroll.
ScrollEffect(newOpen) ==
    scrollListeners
        - (IF isOpen /\ ~caseStudy.null THEN 1 ELSE 0)
        + (IF newOpen /\ ~caseStudy.null THEN 1 ELSE 0)

\* The resize effect (dependencies []): its body adds checkLayout when the
\* component mounts, its cleanup removes it when the component unmounts.
ResizeEffect(newMounted) ==
    resizeListeners
        - (IF mounted # {} THEN 1 ELSE 0)
        + (IF newMounted THEN 1 ELSE 0)

\* --------------------------------------------------------------- operations
\* the guard with its upper bound one too far
OutOfRange_OffByOne(index) ==
    IF variant = "admin"
    THEN index < 0 \/ index > framesLength
    ELSE caseStudy.null \/ index < 0 \/ index > Len(caseStudy.panels) + 1

\* the guard of navigateToFrame / navigateToPanel
OutOfRange(index) ==
    IF variant = "admin"
    THEN index < 0 \/ index >= framesLength
    ELSE caseStudy.null \/ index < 0 \/ index >= Len(caseStudy.panels) + 1

\* isOpen becomes true: scroll-lock effect, reset-on-open effect, keyboard
\* effect and scroll-listener effect run on a freshly created container
OpenRender ==
    /\ mounted # {}
    /\ ~isOpen
    /\ isOpen' = TRUE
    /\ bodyOverflow' = "hidden"
    /\ currentFrame' = 0
    /\ zoomed' = IF variant = "admin" THEN <<>> ELSE zoomed
    /\ scrollLeft' = 0
    /\ scrollTop' = 0
    /\ scrollTarget' = NoTarget
    /\ scrollPending' = FALSE
    /\ keyVertical' = KeyCapture(TRUE, 0, zoomed', isVerticalLayout)
    /\ keyFrame' = FrameCapture(TRUE, 0, zoomed')
    /\ nav' = NoNav
    /\ keydownListeners' = KeyEffect(TRUE)
    /\ scrollListeners' = ScrollEffect(TRUE)
    /\ ev' = Event("open", <<>>, "", <<>>)
    /\ UNCHANGED <<openSection, resizeListeners, mounted, projects, variant,
                   caseStudy, frames, innerWidth, isVerticalLayout, inThrottle,
                   held, recent>>

\* the modal is opened; nothing outside the images is clicked, so the
\* document click listener of UserCaseStudy is left out of account
Open == OpenRender /\ UNCHANGED docClick

\* onClose(): the parent sets isOpen to false; the effects clean up and the
\* container is removed
CloseRender(e) ==
    /\ isOpen' = FALSE
    /\ bodyOverflow' = "auto"
    /\ scrollLeft' = 0
    /\ scrollTop' = 0
    /\ scrollTarget' = NoTarget
    /\ scrollPending' = FALSE
    /\ keyVertical' = FALSE
    /\ keyFrame' = 0
    /\ nav' = NoNav
    /\ keydownListeners' = KeyEffect(FALSE)
    /\ scrollListeners' = ScrollEffect(FALSE)
    /\ ev' = e
    /\ UNCHANGED <<openSection, resizeListeners, mounted, projects, variant,
                   caseStudy, frames, currentFrame, zoomed, innerWidth,
                   isVerticalLayout, inThrottle, held, recent>>

DoClose(e) == CloseRender(e) /\ UNCHANGED docClick

\* the close button or the backdrop is clicked
Close ==
    /\ Rendered
    /\ DoClose(Event("close", <<>>, "", <<>>))

\* the parent closes a navigator that rendered nothing
CloseUnrendered ==
    /\ isOpen /\ caseStudy.null
    /\ DoClose(Event("close", <<>>, "", <<>>))

\* frameSize / panelSize, measured at the call
FrameSize(vert) == IF vert THEN offsetHeight ELSE offsetWidth

\* navigateTo that stores the index before any of its guards
NavigateTo_SetFirst(index, vert, e) ==
    /\ ev' = e
    /\ currentFrame' = index
    /\ keyVertical' = KeyCapture(isOpen, index, zoomed, isVerticalLayout)
    /\ keyFrame' = FrameCapture(isOpen, index, zoomed)
    /\ UNCHANGED <<openSection, docClick, resizeListeners, scrollListeners,
                   mounted, projects, keydownListeners, variant, caseStudy,
                   frames, isOpen, zoomed, innerWidth, isVerticalLayout,
                   scrollLeft, scrollTop, scrollTarget, scrollPending,
                   inThrottle, held, recent, bodyOverflow, nav>>

\* navigateTo that also un-zooms, as the reset on open does
NavigateTo_ClearsZoom(index, vert, e) ==
    /\ ev' = e
    /\ IF OutOfRange(index) \/ ~Rendered
       THEN UNCHANGED <<openSection, docClick, resizeListeners,
                        scrollListeners, mounted, projects, keydownListeners,
                        variant, caseStudy, frames, isOpen, currentFrame,
                        zoomed, innerWidth, isVerticalLayout, scrollLeft,
                        scrollTop, scrollTarget, scrollPending, inThrottle,
                        held, recent, keyVertical, keyFrame, bodyOverflow,
                        nav>>
       ELSE LET requested == FrameSize(vert) * index
                dest == Clamp(requested, 0,
                              MaxScroll(vert, isVerticalLayout, offsetWidth))
                here == IF vert THEN scrollTop ELSE scrollLeft
            IN  /\ scrollTarget' =
                       IF dest = here THEN NoTarget
                       ELSE [active |-> TRUE, top |-> vert, pos |-> dest]
                /\ currentFrame' = index
                /\ zoomed' = <<>>
                /\ keyVertical' =
                       KeyCapture(isOpen, index, <<>>, isVerticalLayout)
                /\ keyFrame' = FrameCapture(isOpen, index, <<>>)
                /\ nav' = [idx |-> index, top |-> vert, pos |-> requested]
                /\ UNCHANGED <<openSection, docClick, resizeListeners,
                               scrollListeners, mounted, projects,
                               keydownListeners, variant, caseStudy, frames,
                               isOpen, innerWidth, isVerticalLayout,
                               scrollLeft, scrollTop, scrollPending,
                               inThrottle, held, recent, bodyOverflow>>

\* navigateToFrame(index) / navigateToPanel(index) as seen by a caller whose
\* closure holds isVerticalLayout = vert
NavigateTo(index, vert, e) ==
    /\ ev' = e
    /\ IF OutOfRange(index) \/ ~Rendered
       THEN UNCHANGED <<openSection, docClick, resizeListeners,
                        scrollListeners, mounted, projects, keydownListeners,
                        variant, caseStudy, frames, isOpen, currentFrame,
                        zoomed, innerWidth, isVerticalLayout, scrollLeft,
                        scrollTop, scrollTarget, scrollPending, inThrottle,
                        held, recent, keyVertical, keyFrame, bodyOverflow,
                        nav>>
       ELSE LET requested == FrameSize(vert) * index
                dest == Clamp(requested, 0,
                              MaxScroll(vert, isVerticalLayout, offsetWidth))
                here == IF vert THEN scrollTop ELSE scrollLeft
            IN  /\ scrollTarget' =
                       IF dest = here THEN NoTarget
                       ELSE [active |-> TRUE, top |-> vert, pos |-> dest]
                /\ currentFrame' = index
                /\ keyVertical' =
                       KeyCapture(isOpen, index, zoomed, isVerticalLayout)
                /\ keyFrame' = FrameCapture(isOpen, index, zoomed)
                /\ nav' = [idx |-> index, top |-> vert, pos |-> requested]
                /\ UNCHANGED <<openSection, docClick, resizeListeners,
                               scrollListeners, mounted, projects,
                               keydownListeners, variant, caseStudy, frames,
                               isOpen, zoomed, innerWidth, isVerticalLayout,
                               scrollLeft, scrollTop, scrollPending,
                               inThrottle, held, recent, bodyOverflow>>

\* a navigation dot is clicked
DotClick(index) ==
    /\ Rendered
    /\ index \in 0..(NavCount - 1)
    /\ NavigateTo(index, isVerticalLayout,
                  Event("navigateTo", <<index>>, "", <<>>))

\* the previous / next arrow button is clicked (rendered only in the
\* horizontal layout and only away from the respective end)
ArrowClick(delta) ==
    /\ Rendered
    /\ ~isVerticalLayout
    /\ IF delta < 0 THEN currentFrame > 0 ELSE currentFrame < NavCount - 1
    /\ NavigateTo(currentFrame + delta, isVerticalLayout,
                  Event("navigateTo", <<currentFrame + delta>>, "", <<>>))

Keys == {"Escape", "ArrowRight", "ArrowDown", "ArrowLeft", "ArrowUp", "Enter"}

\* handleKeyDown with arrow keys that wrap around at the ends
AdminKeyDown_Wrap(key) ==
    LET e == Event("key", <<>>, key, <<>>)
        n == IF NavCount > 0 THEN NavCount ELSE 1
    IN  IF key = "Escape"
        THEN IF zoomed # <<>>
             THEN /\ zoomed' = <<>>
                  /\ keyVertical' =
                         KeyCapture(isOpen, currentFrame, <<>>,
                                    isVerticalLayout)
                  /\ keyFrame' = FrameCapture(isOpen, currentFrame, <<>>)
                  /\ ev' = e
                  /\ UNCHANGED <<openSection, docClick, resizeListeners,
                                 scrollListeners, mounted, projects,
                                 keydownListeners, variant, caseStudy, frames,
                                 isOpen, currentFrame, innerWidth,
                                 isVerticalLayout, scrollLeft, scrollTop,
                                 scrollTarget, scrollPending, inThrottle, held,
                                 recent, bodyOverflow, nav>>
             ELSE DoClose(e)
        ELSE IF key \in {"ArrowRight", "ArrowDown"}
        THEN NavigateTo((keyFrame + 1) % n, keyVertical, e)
        ELSE IF key \in {"ArrowLeft", "ArrowUp"}
        THEN NavigateTo((keyFrame + n - 1) % n, keyVertical, e)
        ELSE /\ ev' = e
             /\ UNCHANGED <<openSection, docClick, resizeListeners,
                            scrollListeners, mounted, projects,
                            keydownListeners, variant, caseStudy, frames,
                            isOpen, currentFrame, zoomed, innerWidth,
                            isVerticalLayout, scrollLeft, scrollTop,
                            scrollTarget, scrollPending, inThrottle, held,
                            recent, keyVertical, keyFrame, bodyOverflow, nav>>

\* handleKeyDown of AdminCaseStudy
AdminKeyDown(key) ==
    LET e == Event("key", <<>>, key, <<>>)
    IN  IF key = "Escape"
        THEN IF zoomed # <<>>
             THEN /\ zoomed' = <<>>
                  /\ keyVertical' =
                         KeyCapture(isOpen, currentFrame, <<>>,
                                    isVerticalLayout)
                  /\ keyFrame' = FrameCapture(isOpen, currentFrame, <<>>)
                  /\ ev' = e
                  /\ UNCHANGED <<openSection, docClick, resizeListeners,
                                 scrollListeners, mounted, projects,
                                 keydownListeners, variant, caseStudy, frames,
                                 isOpen, currentFrame, innerWidth,
                                 isVerticalLayout, scrollLeft, scrollTop,
                                 scrollTarget, scrollPending, inThrottle, held,
                                 recent, bodyOverflow, nav>>
             ELSE DoClose(e)
        ELSE IF key \in {"ArrowRight", "ArrowDown"}
        THEN NavigateTo(keyFrame + 1, keyVertical,
                        Event("key", <<keyFrame + 1>>, key, <<>>))
        ELSE IF key \in {"ArrowLeft", "ArrowUp"}
        THEN NavigateTo(keyFrame - 1, keyVertical,
                        Event("key", <<keyFrame - 1>>, key, <<>>))
        ELSE /\ ev' = e
             /\ UNCHANGED <<openSection, docClick, resizeListeners,
                            scrollListeners, mounted, projects,
                            keydownListeners, variant, caseStudy, frames,
                            isOpen, currentFrame, zoomed, innerWidth,
                            isVerticalLayout, scrollLeft, scrollTop,
                            scrollTarget, scrollPending, inThrottle, held,
                            recent, keyVertical, keyFrame, bodyOverflow, nav>>

\* handleKeyDown of UserCaseStudy
UserKeyDown(key) ==
    LET e == Event("key", <<>>, key, <<>>)
    IN  IF key = "Escape"
        THEN DoClose(e)
        ELSE IF key \in {"ArrowRight", "ArrowDown"}
        THEN NavigateTo(keyFrame + 1, keyVertical,
                        Event("key", <<keyFrame + 1>>, key, <<>>))
        ELSE IF key \in {"ArrowLeft", "ArrowUp"}
        THEN NavigateTo(keyFrame - 1, keyVertical,
                        Event("key", <<keyFrame - 1>>, key, <<>>))
        ELSE /\ ev' = e
             /\ UNCHANGED <<openSection, docClick, resizeListeners,
                            scrollListeners, mounted, projects,
                            keydownListeners, variant, caseStudy, frames,
                            isOpen, currentFrame, zoomed, innerWidth,
                            isVerticalLayout, scrollLeft, scrollTop,
                            scrollTarget, scrollPending, inThrottle, held,
                            recent, keyVertical, keyFrame, bodyOverflow, nav>>

\* a keydown that finds the handler removed and is handled as usual
KeyDown_Leaked(key) ==
    /\ mounted # {}
    /\ ~caseStudy.null
    /\ IF variant = "admin" THEN AdminKeyDown(key) ELSE UserKeyDown(key)

\* a keydown reaches window: the registered handleKeyDown, if any, runs
KeyDown(key) ==
    /\ mounted # {}
    /\ IF keydownListeners > 0
       THEN IF variant = "admin" THEN AdminKeyDown(key) ELSE UserKeyDown(key)
       ELSE /\ ev' = Event("keyUnheard", <<>>, key, <<>>)
            /\ UNCHANGED <<openSection, docClick, resizeListeners,
                           scrollListeners, mounted, projects,
                           keydownListeners, variant, caseStudy, frames,
                           isOpen, currentFrame, zoomed, innerWidth,
                           isVerticalLayout, scrollLeft, scrollTop,
                           scrollTarget, scrollPending, inThrottle, held,
                           recent, keyVertical, keyFrame, bodyOverflow, nav>>

\* the images that can be clicked: the frame index of every content frame
\* (admin), the key `${panel}-${mockup}` of every mockup (user)
ZoomKeys ==
    IF variant = "admin"
    THEN {<<i>> : i \in 1..(framesLength - 1)}
    ELSE UNION {{<<p, m>> :
                     m \in 0..(Len(caseStudy.panels[p + 1].mockups) - 1)} :
                p \in 0..(Len(caseStudy.panels) - 1)}

\* a click that zooms but never un-zooms
Toggle_SetOnly(z, key) == key

\* setZoomedFrame(zoomedFrame === frameIndex ? null : frameIndex) /
\* setActiveImageIndex(isActive ? null : imageKey)
Toggle(z, key) == IF z = key THEN <<>> ELSE key

\* an image is clicked
ToggleZoom(key) ==
    /\ Rendered
    /\ key \in ZoomKeys
    /\ zoomed' = Toggle(zoomed, key)
    /\ keyVertical' =
           KeyCapture(isOpen, currentFrame, zoomed', isVerticalLayout)
    /\ keyFrame' = FrameCapture(isOpen, currentFrame, zoomed')
    /\ ev' = Event("toggleZoom", key, "", zoomed)
    /\ UNCHANGED <<openSection, docClick, resizeListeners, scrollListeners,
                   mounted, projects, keydownListeners, variant, caseStudy,
                   frames, isOpen, currentFrame, innerWidth, isVerticalLayout,
                   scrollLeft, scrollTop, scrollTarget, scrollPending,
                   inThrottle, held, recent, bodyOverflow, nav>>


\* ------------------------------------------------------------ scroll events
\* the body of handleScroll dividing by the height in both layouts
ActiveIndex_HeightOnly ==
    LET scrollPosition == IF isVerticalLayout THEN scrollTop ELSE scrollLeft
    IN  MathRound(scrollPosition, offsetHeight)

\* the body of handleScroll with Math.floor in place of Math.round
ActiveIndex_Floor ==
    LET scrollPosition == IF isVerticalLayout THEN scrollTop ELSE scrollLeft
        containerSize == IF isVerticalLayout THEN offsetHeight ELSE offsetWidth
    IN  scrollPosition \div containerSize

\* the body of handleScroll: the index of the frame nearest to the offset of
\* the scroll axis, as Math.round(scrollPosition / containerSize)
ActiveIndex ==
    LET scrollPosition == IF isVerticalLayout THEN scrollTop ELSE scrollLeft
        containerSize == IF isVerticalLayout THEN offsetHeight ELSE offsetWidth
    IN  MathRound(scrollPosition, containerSize)

\* throttle(body, 100), imported from ../utils/throttle: at most one
\* evaluation of the body per 100 ms window, always with the latest observed
\* value. A call outside a window runs the body and opens a window; a call
\* inside the window is held, and the window's end runs the body once for
\* the calls held, reading the offset as it is then.
Throttled == inThrottle

\* the container's scroll listener, handleScroll = throttle(body, 100), is
\* called with the queued scroll event
ScrollEvent ==
    /\ Rendered
    /\ scrollListeners > 0
    /\ scrollPending
    /\ scrollPending' = FALSE
    /\ IF Throttled
       THEN /\ held' = TRUE
            /\ ev' = Event("scrollHeld", <<>>, "", <<>>)
            /\ UNCHANGED <<currentFrame, inThrottle, recent, keyVertical,
                           keyFrame>>
       ELSE /\ currentFrame' = ActiveIndex
            /\ inThrottle' = TRUE
            /\ recent' = TRUE
            /\ keyVertical' =
                   KeyCapture(isOpen, ActiveIndex, zoomed, isVerticalLayout)
            /\ keyFrame' = FrameCapture(isOpen, ActiveIndex, zoomed)
            /\ ev' = Event("scroll", <<>>, "", <<>>)
            /\ UNCHANGED held
    /\ UNCHANGED <<openSection, docClick, resizeListeners, scrollListeners,
                   mounted, projects, keydownListeners, variant, caseStudy,
                   frames, isOpen, zoomed, innerWidth, isVerticalLayout,
                   scrollLeft, scrollTop, scrollTarget, bodyOverflow, nav>>

\* 100 ms have passed since the body last ran. With a call held, the body
\* runs for it (`if (!container) return` when the modal is gone) and the
\* next window begins; otherwise the window, if one is open, is over.
ThrottleRelease ==
    /\ recent
    /\ IF inThrottle /\ held
       THEN /\ held' = FALSE
            /\ currentFrame' = IF Rendered THEN ActiveIndex ELSE currentFrame
            /\ keyVertical' =
                   KeyCapture(isOpen, currentFrame', zoomed, isVerticalLayout)
            /\ keyFrame' = FrameCapture(isOpen, currentFrame', zoomed)
            /\ ev' = Event("scroll", <<>>, "trailing", <<>>)
            /\ UNCHANGED <<inThrottle, recent>>
       ELSE /\ inThrottle' = FALSE
            /\ recent' = FALSE
            /\ ev' = Event("throttleRelease", <<>>, "", <<>>)
            /\ UNCHANGED <<held, currentFrame, keyVertical, keyFrame>>
    /\ UNCHANGED <<openSection, docClick, resizeListeners, scrollListeners,
                   mounted, projects, keydownListeners, variant, caseStudy,
                   frames, isOpen, zoomed, innerWidth, isVerticalLayout,
                   scrollLeft, scrollTop, scrollTarget, scrollPending,
                   bodyOverflow, nav>>

\* the browser moves the offset of `top ? scrollTop : scrollLeft` to pos and
\* queues a scroll event
MoveTo(top, pos) ==
    /\ scrollLeft' = IF top THEN scrollLeft ELSE pos
    /\ scrollTop' = IF top THEN pos ELSE scrollTop
    /\ scrollPending' = TRUE

\* a smooth scroll started by scrollTo advances, or arrives
SmoothStep ==
    /\ Rendered
    /\ scrollTarget.active
    /\ LET top == scrollTarget.top
           here == IF top THEN scrollTop ELSE scrollLeft
           lo == IF here < scrollTarget.pos THEN here + 1 ELSE scrollTarget.pos
           hi == IF here < scrollTarget.pos THEN scrollTarget.pos ELSE here - 1
       IN  \E pos \in (SampleOffsets(FrameSize(top), NavCount)
                          \cup {scrollTarget.pos}) \cap (lo..hi) :
               /\ MoveTo(top, pos)
               /\ scrollTarget' =
                      IF pos = scrollTarget.pos THEN NoTarget ELSE scrollTarget
    /\ ev' = Event("smoothScroll", <<>>, "", <<>>)
    /\ UNCHANGED <<openSection, docClick, resizeListeners, scrollListeners,
                   mounted, projects, keydownListeners, variant, caseStudy,
                   frames, isOpen, currentFrame, zoomed, innerWidth,
                   isVerticalLayout, inThrottle, held, recent, keyVertical,
                   keyFrame, bodyOverflow, nav>>

\* the user scrolls the container (wheel, touch, fling) along its scroll axis
UserScroll(pos) ==
    /\ Rendered
    /\ pos \in SampleOffsets(FrameSize(isVerticalLayout), NavCount)
    /\ pos # (IF isVerticalLayout THEN scrollTop ELSE scrollLeft)
    /\ MoveTo(isVerticalLayout, pos)
    /\ scrollTarget' = NoTarget
    /\ nav' = UserScrolled
    /\ ev' = Event("userScroll", <<>>, "", <<>>)
    /\ UNCHANGED <<openSection, docClick, resizeListeners, scrollListeners,
                   mounted, projects, keydownListeners, variant, caseStudy,
                   frames, isOpen, currentFrame, zoomed, innerWidth,
                   isVerticalLayout, inThrottle, held, recent, keyVertical,
                   keyFrame, bodyOverflow>>

\* ------------------------------------------------------------------- resize
\* window resize: checkLayout sets isVerticalLayout; the browser lays the
\* container out again. Within one layout the container re-snaps to the frame
\* it was nearest to; when the scroll axis changes the old axis no longer
\* overflows and the new one starts at its first snap point. handleScroll is
\* re-created (a new throttle, outside any window; the listener it replaces
\* goes with the call it held) when isVerticalLayout changes; the keydown
\* effect does not depend on isVerticalLayout and keeps its handler.
Resize(w) ==
    /\ mounted # {}
    /\ resizeListeners > 0
    /\ w \in Widths(variant)
    /\ w # innerWidth
    /\ innerWidth' = w
    /\ isVerticalLayout' = checkLayout(variant, w)
    /\ inThrottle' =
           IF isVerticalLayout' # isVerticalLayout THEN FALSE ELSE inThrottle
    /\ held' = IF isVerticalLayout' # isVerticalLayout THEN FALSE ELSE held
    /\ IF ~Rendered
       THEN UNCHANGED <<scrollLeft, scrollTop, scrollTarget, scrollPending>>
       ELSE IF isVerticalLayout' # isVerticalLayout
       THEN /\ scrollLeft' = 0
            /\ scrollTop' = 0
            /\ scrollTarget' = NoTarget
            /\ scrollPending' =
                   (scrollPending \/ scrollLeft # 0 \/ scrollTop # 0)
       ELSE IF isVerticalLayout
       THEN UNCHANGED <<scrollLeft, scrollTop, scrollTarget, scrollPending>>
       ELSE /\ scrollLeft' = MathRound(scrollLeft, offsetWidth) * w
            /\ scrollTop' = scrollTop
            /\ scrollTarget' = NoTarget
            /\ scrollPending' = (scrollPending \/ scrollLeft' # scrollLeft)
    /\ scrollListeners' =
           IF isVerticalLayout' # isVerticalLayout THEN ScrollEffect(isOpen)
           ELSE scrollListeners
    /\ nav' = NoNav
    /\ ev' = Event("resize", <<w>>,
                   IF isVerticalLayout' # isVerticalLayout THEN "layout"
                   ELSE "", <<>>)
    /\ UNCHANGED <<openSection, docClick, resizeListeners, mounted, projects,
                   keydownListeners, variant, caseStudy, frames, isOpen,
                   currentFrame, zoomed, recent, keyVertical, keyFrame,
                   bodyOverflow>>

\* ------------------------------------------------------- mount and unmount
\* an unmount whose scroll-lock cleanup is missing
Unmount_NoCleanup ==
    /\ mounted # {}
    /\ mounted' = {}
    /\ isOpen' = FALSE
    /\ bodyOverflow' = bodyOverflow
    /\ currentFrame' = 0
    /\ zoomed' = <<>>
    /\ scrollLeft' = 0
    /\ scrollTop' = 0
    /\ scrollTarget' = NoTarget
    /\ scrollPending' = FALSE
    /\ inThrottle' = FALSE
    /\ held' = FALSE
    /\ recent' = FALSE
    /\ keyVertical' = FALSE
    /\ keyFrame' = 0
    /\ nav' = NoNav
    /\ keydownListeners' = KeyEffect(FALSE)
    /\ scrollListeners' = ScrollEffect(FALSE)
    /\ resizeListeners' = ResizeEffect(FALSE)
    /\ ev' = Event("unmount", <<>>, IF isOpen THEN "open" ELSE "", <<>>)
    /\ UNCHANGED <<openSection, docClick, projects, variant, caseStudy, frames,
                   innerWidth, isVerticalLayout>>

\* the parent stops rendering the navigator, open or closed: the cleanup of
\* every effect runs (the scroll-lock cleanup sets overflow to 'auto', the
\* listeners are removed) and the component's state is discarded
UnmountCleanup ==
    /\ mounted # {}
    /\ mounted' = {}
    /\ isOpen' = FALSE
    /\ bodyOverflow' = "auto"
    /\ currentFrame' = 0
    /\ zoomed' = <<>>
    /\ scrollLeft' = 0
    /\ scrollTop' = 0
    /\ scrollTarget' = NoTarget
    /\ scrollPending' = FALSE
    /\ inThrottle' = FALSE
    /\ held' = FALSE
    /\ recent' = FALSE
    /\ keyVertical' = FALSE
    /\ keyFrame' = 0
    /\ nav' = NoNav
    /\ keydownListeners' = KeyEffect(FALSE)
    /\ scrollListeners' = ScrollEffect(FALSE)
    /\ resizeListeners' = ResizeEffect(FALSE)
    /\ ev' = Event("unmount", <<>>, IF isOpen THEN "open" ELSE "", <<>>)
    /\ UNCHANGED <<openSection, projects, variant, caseStudy, frames,
                   innerWidth, isVerticalLayout>>

Unmount == UnmountCleanup /\ UNCHANGED docClick

\* the parent renders the navigator again, closed as Projects does: fresh
\* state, checkLayout() of the resize effect, and the scroll-lock effect
\* taking its else branch
Mount ==
    /\ mounted = {}
    /\ mounted' = {variant}
    /\ isVerticalLayout' = checkLayout(variant, innerWidth)
    /\ bodyOverflow' = "auto"
    /\ resizeListeners' = ResizeEffect(TRUE)
    /\ ev' = Event("mount", <<>>, "", <<>>)
    /\ UNCHANGED <<openSection, docClick, scrollListeners, projects, variant,
                   caseStudy, frames, isOpen, currentFrame, zoomed, innerWidth,
                   scrollLeft, scrollTop, scrollTarget, scrollPending,
                   inThrottle, held, recent, keyVertical, keyFrame, nav,
                   keydownListeners>>

\* ---------------------------------------------------------------------- Spec
\* the content trees a navigator is mounted with
NavTrees == {NullTree, Tree("ReviseGPT", <<>>), Tree("ReviseGPT", <<2, 1>>)}

Init ==
    \E v \in {"admin", "user"}, cs \in NavTrees :
        /\ \E w \in Widths(v) : Mounted(v, cs, w, checkLayout(v, w))
        /\ mounted = {v}

Next ==
    \/ Open
    \/ Close
    \/ CloseUnrendered
    \/ \E index \in 0..(NavCount - 1) : DotClick(index)
    \/ \E delta \in {-1, 1} : ArrowClick(delta)
    \/ \E key \in Keys : KeyDown(key)
    \/ \E key \in ZoomKeys : ToggleZoom(key)
    \/ ScrollEvent
    \/ ThrottleRelease
    \/ SmoothStep
    \/ \E pos \in SampleOffsets(FrameSize(isVerticalLayout), NavCount) :
           UserScroll(pos)
    \/ \E w \in Widths(variant) : Resize(w)
    \/ Unmount
    \/ Mount

Spec == Init /\ [][Next]_vars

\* ----------------------------------------------------------------- SpecPage
\* The Projects section with its three modals, and the About accordion of
\* the same page. Of the two navigators only the isOpen prop and the
\* scroll-lock effect appear here; the variables of the single navigator of
\* Spec stay at rest.
navigator == <<docClick, resizeListeners, scrollListeners, variant, caseStudy,
               frames, isOpen, currentFrame, zoomed, innerWidth,
               isVerticalLayout, scrollLeft, scrollTop, scrollTarget,
               scrollPending, inThrottle, held, recent, keyVertical,
               keyFrame, nav, keydownListeners>>

Navigators == {"user", "admin"}

\* the isOpen prop Projects passes to navigator v
IsOpenProp(v) == IF v = "user" THEN userCaseStudyOpen ELSE adminCaseStudyOpen

\* the body of the scroll-lock effect:
\* document.body.style.overflow = isOpen ? 'hidden' : 'auto'
ScrollLock(open) == IF open THEN "hidden" ELSE "auto"

\* setUserCaseStudyOpen(open) / setAdminCaseStudyOpen(open); a mounted
\* navigator re-renders and its scroll-lock effect runs: the cleanup of the
\* previous run sets 'auto', then the body runs with the new isOpen
SetCaseStudyOpen(v, open) ==
    /\ v \in mounted
    /\ IsOpenProp(v) # open
    /\ userCaseStudyOpen' = IF v = "user" THEN open ELSE userCaseStudyOpen
    /\ adminCaseStudyOpen' = IF v = "admin" THEN open ELSE adminCaseStudyOpen
    /\ bodyOverflow' = ScrollLock(open)
    /\ ev' = Event(IF open THEN "open" ELSE "close", <<>>, v, <<>>)
    /\ UNCHANGED <<openSection, navigator, mounted, projectModalOpen,
                   currentProject, projectTimers>>

\* the Medical AI cards call these; nothing in Projects refuses a call while
\* another modal is open
openUserCaseStudy == SetCaseStudyOpen("user", TRUE)
closeUserCaseStudy == SetCaseStudyOpen("user", FALSE)
openAdminCaseStudy == SetCaseStudyOpen("admin", TRUE)
closeAdminCaseStudy == SetCaseStudyOpen("admin", FALSE)

\* navigator v is rendered: its scroll-lock effect runs with its isOpen prop
MountNavigator(v) ==
    /\ v \notin mounted
    /\ mounted' = mounted \cup {v}
    /\ bodyOverflow' = ScrollLock(IsOpenProp(v))
    /\ ev' = Event("mount", <<>>, v, <<>>)
    /\ UNCHANGED <<openSection, navigator, projects>>

\* navigator v is discarded, open or closed: the cleanup of its scroll-lock
\* effect sets 'auto'; what Projects held for it goes back to closed
UnmountNavigator(v) ==
    /\ v \in mounted
    /\ mounted' = mounted \ {v}
    /\ userCaseStudyOpen' = IF v = "user" THEN FALSE ELSE userCaseStudyOpen
    /\ adminCaseStudyOpen' = IF v = "admin" THEN FALSE ELSE adminCaseStudyOpen
    /\ bodyOverflow' = "auto"
    /\ ev' = Event("unmount", <<>>, v, <<>>)
    /\ UNCHANGED <<openSection, navigator, projectModalOpen, currentProject,
                   projectTimers>>

\* the projects whose cards open the ProjectModal (project.id !== 2)
ModalProjects == {1, 3}

\* what a card passes to openProjectModal: the project and the app type
ProjectData == {<<id, type>> : id \in ModalProjects,
                               type \in {"User App", "Admin App"}}

\* openProjectModal(projectData)
openProjectModal(projectData) ==
    /\ currentProject' = projectData
    /\ projectModalOpen' = TRUE
    /\ ev' = Event("openProject", projectData, "", <<>>)
    /\ UNCHANGED <<openSection, navigator, mounted, userCaseStudyOpen,
                   adminCaseStudyOpen, projectTimers, bodyOverflow>>

\* closeProjectModal(): closes and starts the 200 ms timer
closeProjectModal ==
    /\ projectModalOpen
    /\ projectTimers < MaxTimers
    /\ projectModalOpen' = FALSE
    /\ projectTimers' = projectTimers + 1
    /\ ev' = Event("closeProject", <<>>, "", <<>>)
    /\ UNCHANGED <<openSection, navigator, mounted, userCaseStudyOpen,
                   adminCaseStudyOpen, currentProject, bodyOverflow>>

\* a timer of closeProjectModal fires: setCurrentProject(null)
ProjectTimer ==
    /\ projectTimers > 0
    /\ projectTimers' = projectTimers - 1
    /\ currentProject' = <<>>
    /\ ev' = Event("projectTimer", <<>>, "", <<>>)
    /\ UNCHANGED <<openSection, navigator, mounted, userCaseStudyOpen,
                   adminCaseStudyOpen, projectModalOpen, bodyOverflow>>

\* ------------------------------------------------------------------ AboutMe
\* The bio accordion of the About section, rendered on the same page. Text is
\* held as the sequence of its words and punctuation marks, in order; the
\* dash of the source is written "-".
bioSections ==
    [id \in 0..2 |->
        CASE id = 0 ->
            [label |-> "OVERVIEW",
             content |->
                <<"Ferhaten", "-", "UI/UX", "designer", "&", "frontend",
                  "developer", "crafting", "web", "experiences", "with",
                  "soul", ",", "speed", ",", "and", "precision", ".">>,
             preview |->
                <<"Ferhaten", "-", "UI/UX", "designer", "&", "frontend",
                  "developer", "crafting", "web", "experiences", ".", ".",
                  ".">>]
          [] id = 1 ->
            [label |-> "EXPERTISE",
             content |->
                <<"I", "design", "in", "Figma", ",", "build", "with",
                  "React", "+", "TypeScript", ",", "style", "with",
                  "Tailwind", ",", "and", "bring", "interfaces", "to",
                  "life", "using", "Framer", "Motion", "-", "delivering",
                  "production-ready", "products", "like", "embedded",
                  "SaaS", "analytics", "dashboards", ",", "AI-powered",
                  "medical", "assistants", ",", "and", "modern",
                  "e-commerce", "web", "apps", "that", "perform",
                  "flawlessly", "and", "drive", "real", "results", ".">>,
             preview |->
                <<"I", "design", "in", "Figma", ",", "build", "with",
                  "React", "+", "TypeScript", ",", "style", "with",
                  "Tailwind", ".", ".", ".">>]
          [] id = 2 ->
            [label |-> "BACKGROUND",
             content |->
                <<"Final-year", "Computer", "Science", "student",
                  "actively", "freelancing", "and", "shipping", "personal",
                  "projects", "reaching", "thousands", "of", "users", ",",
                  "with", "a", "sharp", "focus", "on", "accessibility",
                  ",", "performance", ",", "and", "scalable", "design",
                  "systems", ".">>,
             preview |->
                <<"Final-year", "Computer", "Science", "student",
                  "actively", "freelancing", "and", "shipping", "personal",
                  "projects", ".", ".", ".">>]]

SectionIds == DOMAIN bioSections

\* the positions of text at which pattern occurs
Occurrences(text, pattern) ==
    {i \in 1..(Len(text) + 1 - Len(pattern)) :
        SubSeq(text, i, i + Len(pattern) - 1) = pattern}

\* String.prototype.replace(pattern, '') with a string pattern: the first
\* occurrence is cut out, and a text without an occurrence is returned as
\* it is
replace(text, pattern) ==
    IF Occurrences(text, pattern) = {} THEN text
    ELSE LET i == CHOOSE k \in Occurrences(text, pattern) :
                      \A j \in Occurrences(text, pattern) : k <= j
         IN  SubSeq(text, 1, i - 1)
                 \o SubSeq(text, i + Len(pattern), Len(text))

\* the sections whose accordion body is rendered: openSection === section.id
OpenSections == {id \in SectionIds : openSection = <<id>>}

\* the accordion body of a section: section.content.replace(section.preview,
\* '')
ExpandedBody(id) == replace(bioSections[id].content, bioSections[id].preview)

\* the value toggleSection stores: openSection === id ? null : id
NextSection_KeepsOpen(open, id) == <<id>>

NextSection(open, id) == IF open = <<id>> THEN <<>> ELSE <<id>>

\* toggleSection(id), the onClick of a section's button
toggleSection(id) ==
    /\ openSection' = NextSection(openSection, id)
    /\ ev' = Event("toggleSection", <<id>>, "", openSection)
    /\ UNCHANGED <<navigator, mounted, userCaseStudyOpen, adminCaseStudyOpen,
                   projectModalOpen, currentProject, projectTimers,
                   bodyOverflow>>

\* Projects as first rendered, both navigators mounted and closed
InitPage ==
    /\ Mounted("admin", NullTree, AdminBreakpoint, FALSE)
    /\ mounted = Navigators

NextPage ==
    \/ openUserCaseStudy
    \/ closeUserCaseStudy
    \/ openAdminCaseStudy
    \/ closeAdminCaseStudy
    \/ \E v \in Navigators : MountNavigator(v)
    \/ \E v \in Navigators : UnmountNavigator(v)
    \/ \E projectData \in ProjectData : openProjectModal(projectData)
    \/ closeProjectModal
    \/ ProjectTimer
    \/ \E id \in SectionIds : toggleSection(id)

SpecPage == InitPage /\ [][NextPage]_vars

\* --------------------------------------------------------------- SpecScroll
\* The scroll handler alone, with the scheduling the browser guarantees: a
\* queued scroll event is dispatched and a timer that is due fires.
NextScroll ==
    \/ Open
    \/ Close
    \/ \E pos \in SampleOffsets(FrameSize(isVerticalLayout), NavCount) :
           UserScroll(pos)
    \/ ScrollEvent
    \/ ThrottleRelease

InitScroll ==
    \E v \in {"admin", "user"} :
        /\ \E w \in Widths(v) :
               Mounted(v, Tree("ReviseGPT", <<2, 1>>), w, checkLayout(v, w))
        /\ mounted = {v}

SpecScroll ==
    /\ InitScroll
    /\ [][NextScroll]_vars
    /\ WF_vars(ScrollEvent)
    /\ WF_vars(ThrottleRelease)

\* ----------------------------------------------------------------- SpecZoom
\* Clicks while the modal is showing, with UserCaseStudy's "dismiss zoom on
\* any click" effect. The effect registers handleClick on document, capture
\* phase, from a 10 ms timer, so a click reaches handleClick before it
\* reaches the image's onClick. Every set state of a listener is rendered
\* before the next listener runs. AdminCaseStudy has no such effect. The
\* other specifications have no click outside the images and leave docClick
\* as constructed.

\* handleClick without the isClickOnImage test
handleClick_AnyTarget(z, key, listening) ==
    IF listening THEN <<>> ELSE z

\* handleClick with its test inverted: `if (isClickOnImage)`
handleClick_Inverted(z, key, listening) ==
    IF listening /\ key = z THEN <<>> ELSE z

\* activeImageIndex after handleClick(e) for a click whose target is the
\* image `key` (<<>>: no image). The <img> takes no pointer events, so the
\* target is the image's motion.div, and closest('.zoomed-image') finds
\* something exactly when that div is the active one.
handleClick(z, key, listening) ==
    IF listening /\ key # z THEN <<>> ELSE z

\* some handleClick is registered on document
Listening ==
    variant = "user" /\ (docClick.listener = "on" \/ docClick.leaked)

\* The click effect after a render that changed its dependencies
\* [isOpen, activeImageIndex] from (oldOpen, oldZ) to (newOpen, newZ): the
\* cleanup removes the listener this effect registered (a timer still
\* pending is not cancelled), then the effect runs again and, with isOpen and
\* an active image, sets its timer. An unmount runs the cleanup alone.
ClickEffect(c, oldOpen, oldZ, newOpen, newZ) ==
    IF variant # "user" \/ (oldOpen = newOpen /\ oldZ = newZ) THEN c
    ELSE [listener |-> IF newOpen /\ newZ # <<>> THEN "timer" ELSE "none",
          stale |-> c.stale + (IF c.listener = "timer" THEN 1 ELSE 0),
          leaked |-> c.leaked]

\* a click on the image `key`: handleClick where registered, then the onClick
\* of the image as last rendered
ImageClick(key) ==
    /\ Rendered
    /\ key \in ZoomKeys
    \* at most MaxTimers stale timers are pending at once
    /\ docClick.listener = "timer" => docClick.stale < MaxTimers
    /\ LET dismissed == handleClick(zoomed, key, Listening)
           toggled == Toggle(dismissed, key)
       IN  /\ zoomed' = toggled
           /\ docClick' =
                  ClickEffect(ClickEffect(docClick, isOpen, zoomed,
                                          isOpen, dismissed),
                              isOpen, dismissed, isOpen, toggled)
           /\ keyVertical' =
                  KeyCapture(isOpen, currentFrame, toggled, isVerticalLayout)
           /\ keyFrame' = FrameCapture(isOpen, currentFrame, toggled)
    /\ ev' = Event("imageClick", key, IF Listening THEN "capture" ELSE "",
                   zoomed)
    /\ UNCHANGED <<openSection, resizeListeners, scrollListeners, mounted,
                   projects, keydownListeners, variant, caseStudy, frames,
                   isOpen, currentFrame, innerWidth, isVerticalLayout,
                   scrollLeft, scrollTop, scrollTarget, scrollPending,
                   inThrottle, held, recent, bodyOverflow, nav>>

\* a click anywhere in the document but on an image (no control is meant:
\* the target has no click handler of its own); the modal need not be
\* showing for a registered handleClick to receive it
OutsideClick ==
    /\ mounted # {}
    \* at most MaxTimers stale timers are pending at once
    /\ docClick.listener = "timer" => docClick.stale < MaxTimers
    /\ LET dismissed == handleClick(zoomed, <<>>, Listening)
       IN  /\ zoomed' = dismissed
           /\ docClick' =
                  ClickEffect(docClick, isOpen, zoomed, isOpen, dismissed)
           /\ keyVertical' =
                  KeyCapture(isOpen, currentFrame, dismissed, isVerticalLayout)
           /\ keyFrame' = FrameCapture(isOpen, currentFrame, dismissed)
    /\ ev' = Event("outsideClick", <<>>, IF Listening THEN "capture" ELSE "",
                   zoomed)
    /\ UNCHANGED <<openSection, resizeListeners, scrollListeners, mounted,
                   projects, keydownListeners, variant, caseStudy, frames,
                   isOpen, currentFrame, innerWidth, isVerticalLayout,
                   scrollLeft, scrollTop, scrollTarget, scrollPending,
                   inThrottle, held, recent, bodyOverflow, nav>>

\* the 10 ms timer of the effect that last ran:
\* document.addEventListener('click', handleClick, true)
ClickTimer ==
    /\ docClick.listener = "timer"
    /\ docClick' = [docClick EXCEPT !.listener = "on"]
    /\ ev' = Event("clickTimer", <<>>, "", <<>>)
    /\ UNCHANGED <<openSection, resizeListeners, scrollListeners, mounted,
                   projects, keydownListeners, variant, caseStudy, frames,
                   isOpen, currentFrame, zoomed, innerWidth, isVerticalLayout,
                   scrollLeft, scrollTop, scrollTarget, scrollPending,
                   inThrottle, held, recent, keyVertical, keyFrame,
                   bodyOverflow, nav>>

\* the 10 ms timer of an effect whose cleanup has already run: its
\* handleClick is registered and stays
StaleClickTimer ==
    /\ docClick.stale > 0
    /\ docClick' = [docClick EXCEPT !.stale = @ - 1, !.leaked = TRUE]
    /\ ev' = Event("clickTimer", <<>>, "stale", <<>>)
    /\ UNCHANGED <<openSection, resizeListeners, scrollListeners, mounted,
                   projects, keydownListeners, variant, caseStudy, frames,
                   isOpen, currentFrame, zoomed, innerWidth, isVerticalLayout,
                   scrollLeft, scrollTop, scrollTarget, scrollPending,
                   inThrottle, held, recent, keyVertical, keyFrame,
                   bodyOverflow, nav>>

\* the modal is opened, or opened again with the image that was left zoomed
ZoomOpen ==
    /\ OpenRender
    /\ docClick' = ClickEffect(docClick, isOpen, zoomed, TRUE, zoomed')

\* the modal is closed with the click effect cleaning up
ZoomClose ==
    /\ Rendered
    \* at most MaxTimers stale timers are pending at once
    /\ docClick.listener = "timer" => docClick.stale < MaxTimers
    /\ CloseRender(Event("close", <<>>, "", zoomed))
    /\ docClick' = ClickEffect(docClick, isOpen, zoomed, FALSE, zoomed)

\* the component is unmounted with the click effect cleaning up
ZoomUnmount ==
    \* at most MaxTimers stale timers are pending at once
    /\ docClick.listener = "timer" => docClick.stale < MaxTimers
    /\ UnmountCleanup
    /\ docClick' = ClickEffect(docClick, isOpen, zoomed, FALSE, <<>>)

NextZoom ==
    \/ ZoomOpen
    \/ ZoomClose
    \/ ZoomUnmount
    \/ Mount
    \/ \E key \in ZoomKeys : ImageClick(key)
    \/ OutsideClick
    \/ ClickTimer
    \/ StaleClickTimer

SpecZoom == Init /\ [][NextZoom]_vars

\* ----------------------------------------------------------------- SpecNull
\* Navigation requests whatever is rendered. With caseStudy null nothing is
\* rendered, so no control can call navigateTo; here it is called directly,
\* with indexes inside and outside the range of any tree.
NavIndexes == (0 - 1)..(MaxPanels + 1)

\* navigateToFrame(index) / navigateToPanel(index) called as a function, on
\* the layout of the last render
navigateTo(index) ==
    /\ mounted # {}
    /\ NavigateTo(index, isVerticalLayout,
                  Event("navigateTo", <<index>>, "direct", <<>>))

NextNull ==
    \/ Open
    \/ Close
    \/ CloseUnrendered
    \/ \E index \in NavIndexes : navigateTo(index)
    \/ \E key \in Keys : KeyDown(key)
    \/ \E key \in ZoomKeys : ToggleZoom(key)
    \/ \E w \in Widths(variant) : Resize(w)

SpecNull == Init /\ [][NextNull]_vars

\* ------------------------------------------------------ claims on the frames
RECURSIVE TotalMockups(_)
TotalMockups(panels) ==
    IF panels = <<>> THEN 0
    ELSE Len(Head(panels).mockups) + TotalMockups(Tail(panels))

\* C7: for every content tree, the frame list has exactly
\* 1 + (sum over the panels of their number of mockups) frames; with no panel,
\* or only panels without mockups, exactly one.
C7_FrameCount ==
    ~caseStudy.null =>
        /\ Len(frames) = 1 + TotalMockups(caseStudy.panels)
        /\ (\A p \in 1..Len(caseStudy.panels) :
                Len(caseStudy.panels[p].mockups) = 0) => Len(frames) = 1

\* a tree with an empty panel between two non-empty ones has been loaded
C7_Witness ==
    /\ ev.op = "caseStudy"
    /\ ~caseStudy.null
    /\ Len(caseStudy.panels) = 3
    /\ Len(caseStudy.panels[1].mockups) = 2
    /\ Len(caseStudy.panels[2].mockups) = 0
    /\ Len(caseStudy.panels[3].mockups) = 3
    /\ Len(frames) = 6

\* C8: whenever a content tree is loaded, frames[0] is the intro frame with
\* the tree's title and description and every later frame is a content frame,
\* also for a tree without panels.
C8_IntroFirst ==
    ~caseStudy.null =>
        /\ Len(frames) >= 1
        /\ frames[1].type = "intro"
        /\ frames[1].title = caseStudy.title
        /\ frames[1].description = caseStudy.description
        /\ \A i \in 2..Len(frames) : frames[i].type = "content"

\* a tree with content frames has been loaded and starts with its intro
C8_Witness ==
    /\ ev.op = "caseStudy"
    /\ ~caseStudy.null
    /\ caseStudy.title = "Professor"
    /\ Len(frames) = 4
    /\ frames[1].type = "intro"
    /\ frames[4].type = "content"

\* number of mockups in the panels before panel p (1-based)
MockupsBefore(panels, p) == TotalMockups(SubSeq(panels, 1, p - 1))

\* C9: content frames follow panel order and, within a panel, mockup order;
\* the frame of mockup j (0-based) of panel p carries panelIndex = p,
\* imageNumber = j+1, totalImages = the panel's number of mockups,
\* isFirstInPanel iff j = 0 and isLastInPanel iff j = totalImages-1.
C9_FrameOrder ==
    ~caseStudy.null =>
        \A p \in 1..Len(caseStudy.panels) :
            \A j \in 1..Len(caseStudy.panels[p].mockups) :
                LET panel == caseStudy.panels[p]
                    at == 1 + MockupsBefore(caseStudy.panels, p) + j
                IN  /\ at <= Len(frames)
                    /\ frames[at].type = "content"
                    /\ frames[at].mockup = panel.mockups[j]
                    /\ frames[at].panelLabel = panel.label
                    /\ frames[at].panelIndex = p - 1
                    /\ frames[at].imageNumber = j
                    /\ frames[at].totalImages = Len(panel.mockups)
                    /\ frames[at].isFirstInPanel = (j = 1)
                    /\ frames[at].isLastInPanel = (j = Len(panel.mockups))

\* the scenario of the specification: panel A with 1 mockup, panel B with 3
C9_Witness ==
    /\ ev.op = "caseStudy"
    /\ ~caseStudy.null
    /\ Len(caseStudy.panels) = 2
    /\ Len(caseStudy.panels[1].mockups) = 1
    /\ Len(caseStudy.panels[2].mockups) = 3
    /\ Len(frames) = 5
    /\ frames[2].isFirstInPanel /\ frames[2].isLastInPanel
    /\ frames[2].panelIndex = 0
    /\ ~frames[5].isFirstInPanel /\ frames[5].isLastInPanel
    /\ frames[5].panelIndex = 1
    /\ frames[5].imageNumber = 3 /\ frames[5].totalImages = 3

\* --------------------------------------------------- claims on the navigator
\* the number of navigable positions as the specification counts them:
\* 1 + all mockups (frame-per-image), 1 + the panels (panel-per-feature)
FrameCount ==
    IF variant = "admin"
    THEN 1 + TotalMockups(caseStudy.panels)
    ELSE 1 + Len(caseStudy.panels)

ForwardKeys == {"ArrowRight", "ArrowDown"}
BackKeys == {"ArrowLeft", "ArrowUp"}

Settled ==
    /\ Rendered
    /\ nav.idx >= 0
    /\ ~held
    /\ ~scrollTarget.active
    /\ ~scrollPending
    /\ (IF nav.top THEN scrollTop ELSE scrollLeft) = nav.pos

\* C2: for every valid index, navigateTo(index) followed by the scroll
\* settling at the requested offset, every scroll event on the way handled,
\* ends with currentFrameIndex = index.
C2_NavigateSettles == Settled => currentFrame = nav.idx

\* The same for the calls that scroll along the container's scroll axis, as
\* every call from a navigation dot or arrow button does. A call from the
\* keydown handler registered before a layout change scrolls along the other
\* axis (the keydown effect does not depend on isVerticalLayout).
NavigateSettlesOnAxis ==
    (Settled /\ nav.top = isVerticalLayout) => currentFrame = nav.idx

\* the step is a navigateTo call (dot, arrow button or arrow key)
NavigateCall == ev'.op \in {"navigateTo", "key"} /\ ev'.arg # <<>>

\* C3: navigateTo(index) with index < 0 or index >= the number of navigable
\* positions is a silent no-op: currentFrameIndex, the zoom state, the scroll
\* offset and isOpen are unchanged.
C3_OutOfRangeNoOp ==
    [][(NavigateCall /\ (ev'.arg[1] < 0 \/ ev'.arg[1] >= FrameCount))
          => UNCHANGED <<currentFrame, zoomed, scrollLeft, scrollTop,
                         scrollTarget, isOpen>>]_vars

\* navigateTo was called with the index one past the last frame, away from
\* the first snap point and with an image zoomed
C3_Witness ==
    /\ ev.op = "key"
    /\ ev.arg = <<FrameCount>>
    /\ isOpen
    /\ currentFrame = FrameCount - 1
    /\ zoomed # <<>>
    /\ scrollLeft > 0

\* C4: every transition of isOpen from false to true leaves
\* currentFrameIndex = 0 and the zoomed index = none, in both variants.
C4_OpenResets ==
    [][(~isOpen /\ isOpen') => (currentFrame' = 0 /\ zoomed' = <<>>)]_vars

\* C5: pressing Escape while the modal is open and an image is zoomed clears
\* the zoom and does not close; pressing Escape while nothing is zoomed
\* closes.
C5_EscapeUnzoomsFirst ==
    [][(isOpen /\ ev'.op = "key" /\ ev'.key = "Escape")
          => IF zoomed # <<>>
             THEN zoomed' = <<>> /\ isOpen'
             ELSE ~isOpen']_vars

\* C6: ArrowRight / ArrowDown at currentFrameIndex = frameCount-1, and
\* ArrowLeft / ArrowUp at currentFrameIndex = 0, leave currentFrameIndex
\* unchanged: no wraparound.
C6_NoWraparound ==
    [][(isOpen /\ ev'.op = "key" /\
          \/ (ev'.key \in ForwardKeys /\ currentFrame = FrameCount - 1)
          \/ (ev'.key \in BackKeys /\ currentFrame = 0))
          => currentFrame' = currentFrame]_vars

\* ArrowDown was pressed on the last of several frames, which is still the
\* current one
C6_Witness ==
    /\ isOpen
    /\ ev.op = "key"
    /\ ev.key = "ArrowDown"
    /\ FrameCount > 1
    /\ ev.arg = <<FrameCount>>
    /\ currentFrame = FrameCount - 1

\* the step applies toggleZoom to the index the previous event toggled
SecondToggle ==
    /\ ev.op = "toggleZoom"
    /\ ev'.op = "toggleZoom"
    /\ ev'.arg = ev.arg

\* C10 as stated: toggleZoom(i) twice in a row leaves the zoomed index at
\* none.
C10_DoubleToggleNone == [][SecondToggle => zoomed' = <<>>]_vars

\* C10 as amended: toggleZoom(i) twice in a row restores the zoom state
\* before the first application when that state was i or none; from another
\* zoomed image it ends at none. So the result is none exactly when i was not
\* zoomed before the first application.
C10_DoubleToggle ==
    [][SecondToggle
          => zoomed' = (IF ev.pre = ev.arg THEN ev.arg ELSE <<>>)]_vars

\* the second of two toggles of one image has un-zoomed it again
C10_Witness ==
    /\ ev.op = "toggleZoom"
    /\ ev.pre = ev.arg
    /\ zoomed = <<>>
    /\ isOpen

\* the last event was a resize that changed the layout mode while the modal
\* was showing
LayoutChanged == Rendered /\ ev.op = "resize" /\ ev.key = "layout"

\* C11: a resize across the layout threshold while the modal is open changes
\* isVerticalLayout and leaves currentFrameIndex unchanged, at the resize step
\* and at the step in which the scroll handler next runs, now reading the new
\* scroll axis.
C11_ResizeKeepsIndex ==
    [][/\ (Rendered /\ ev'.op = "resize" /\ ev'.key = "layout")
            => /\ isVerticalLayout' # isVerticalLayout
               /\ currentFrame' = currentFrame
       /\ (LayoutChanged /\ ev'.op = "scroll")
            => currentFrame' = currentFrame]_vars

\* the part of C11 about the resize step alone
ResizeStepKeepsIndex ==
    [][(Rendered /\ ev'.op = "resize")
          => currentFrame' = currentFrame]_vars

\* C12: for a single navigator, the page's background scroll is suspended
\* (body overflow hidden) in every state where isOpen is true, and it is
\* restored (overflow auto) in every state where it is not: after a close
\* while mounted and after an unmount while still open.
C12_ScrollLocked ==
    /\ isOpen => bodyOverflow = "hidden"
    /\ ~isOpen => bodyOverflow = "auto"

\* the navigator was unmounted while open and the background scrolls again
C12_Witness ==
    /\ ev.op = "unmount"
    /\ ev.key = "open"
    /\ mounted = {}
    /\ ~isOpen
    /\ bodyOverflow = "auto"

\* navigator v of the page is open
NavigatorOpen(v) == v \in mounted /\ IsOpenProp(v)

\* C13: with both navigators on one page sharing document.body's overflow,
\* after any interleaving of their open, close, mount and unmount events the
\* background scroll is locked if and only if at least one navigator is open.
C13_LockedIffOpen ==
    (bodyOverflow = "hidden") <=> (\E v \in Navigators : NavigatorOpen(v))

\* no lock is left behind once no navigator is open
NoLockLeft ==
    (\A v \in Navigators : ~NavigatorOpen(v)) => bodyOverflow = "auto"

\* C14: a keydown is handled by a navigator only while it is open: in every
\* state where isOpen is false no keydown listener of the component is
\* registered, and a key pressed then runs no handler (so onClose is not
\* called) and changes neither currentFrameIndex nor the zoom state.
C14_KeysOnlyWhileOpen ==
    [][/\ ~isOpen => keydownListeners = 0
       /\ ~isOpen' => keydownListeners' = 0
       /\ (~isOpen /\ ev'.op \in {"key", "keyUnheard"})
            => /\ ev'.op = "keyUnheard"
               /\ UNCHANGED <<currentFrame, zoomed, isOpen>>]_vars

\* Escape was pressed on a navigator closed with an image still zoomed and
\* away from the first frame, and nothing heard it
C14_Witness ==
    /\ ev.op = "keyUnheard"
    /\ ev.key = "Escape"
    /\ mounted # {}
    /\ ~isOpen
    /\ ~caseStudy.null
    /\ zoomed # <<>>
    /\ currentFrame > 0

\* Math.round(offset / extent) of the container as it is now
RoundedOffset ==
    IF isVerticalLayout
    THEN (2 * scrollTop + ViewportHeight) \div (2 * ViewportHeight)
    ELSE (2 * scrollLeft + innerWidth) \div (2 * innerWidth)

\* the step is the user scrolling the container
UserScrollStep ==
    /\ ev'.op = "userScroll"
    /\ <<scrollLeft, scrollTop>>' # <<scrollLeft, scrollTop>>

ScrollStopped ==
    /\ Rendered
    /\ nav = UserScrolled
    /\ ~scrollPending
    /\ ~held

\* The same as a statement about states, among all the events of Spec: once
\* the scrolling has stopped the index is the rounded offset.
IndexAfterScrolling == ScrollStopped => currentFrame = RoundedOffset

C16_OncePerWindow ==
    [][(ev'.op = "scroll" /\ ev'.key # "trailing") => ~recent]_vars

\* C17: ArrowRight / ArrowDown call navigateTo(c + 1) and ArrowLeft / ArrowUp
\* call navigateTo(c - 1), where c is the currentFrameIndex left by the most
\* recent update from any source (scroll handler, dot or arrow button,
\* earlier key); a key never navigates relative to an older index.
C17_KeysUseLatestIndex ==
    [][(isOpen /\ ev'.op = "key")
          => /\ ev'.key \in ForwardKeys => ev'.arg = <<currentFrame + 1>>
             /\ ev'.key \in BackKeys => ev'.arg = <<currentFrame - 1>>]_vars

\* ArrowRight has navigated to frame 2 from the frame 1 that the scroll
\* handler had stored for an offset between two snap points
C17_Witness ==
    /\ isOpen
    /\ ev.op = "key"
    /\ ev.key = "ArrowRight"
    /\ ev.arg = <<2>>
    /\ currentFrame = 2
    /\ RoundedOffset = 1
    /\ (IF isVerticalLayout THEN scrollTop % ViewportHeight
        ELSE scrollLeft % innerWidth) # 0

\* the step is an arrow key whose navigateTo call is in range
KeyNavigation ==
    /\ Rendered
    /\ ev'.op = "key"
    /\ ev'.arg # <<>>
    /\ ev'.arg[1] \in 0..(FrameCount - 1)

\* C18: also after the layout mode has changed while the modal is open, an
\* arrow-key navigation scrolls along the axis of the current layout mode
\* (top in vertical, left in horizontal), so that the frame shown follows
\* currentFrameIndex.
C18_KeysFollowLayout ==
    [][KeyNavigation
          => /\ nav'.top = isVerticalLayout
             /\ scrollTarget'.active => scrollTarget'.top = isVerticalLayout
             /\ currentFrame' # RoundedOffset => scrollTarget'.active]_vars

\* The calls made from a navigation dot or an arrow button do follow the
\* layout mode: they use the navigateTo of the current render.
ClicksFollowLayout ==
    [][(Rendered /\ ev'.op = "navigateTo")
          => nav'.top = isVerticalLayout]_vars

\* the container's extent along the scroll axis of the current layout mode
CurrentExtent == IF isVerticalLayout THEN ViewportHeight ELSE innerWidth

\* the step is a navigateTo call with an index in range
InRangeCall ==
    /\ Rendered
    /\ NavigateCall
    /\ ev'.arg[1] \in 0..(FrameCount - 1)

\* C19: for every in-range navigateTo(index) the requested scroll offset is
\* index times the container's extent (width in horizontal mode, height in
\* vertical mode) as it is at the call, whatever resizes and calls came
\* before.
C19_OffsetFromCurrentExtent ==
    [][InRangeCall
          => /\ nav'.idx = ev'.arg[1]
             /\ nav'.pos = ev'.arg[1] * CurrentExtent]_vars

\* The calls made from a navigation dot or an arrow button request index
\* times the current extent, also after resizes within a layout mode.
ClicksUseCurrentExtent ==
    [][(InRangeCall /\ ev'.op = "navigateTo")
          => /\ nav'.idx = ev'.arg[1]
             /\ nav'.pos = ev'.arg[1] * CurrentExtent]_vars

\* the images shown as zoomed: `zoomedFrame === frameIndex` (admin),
\* `isActive = activeImageIndex === imageKey` (user)
ZoomedImages == {key \in ZoomKeys : zoomed = key}

\* C20: a click on an image (toggleZoom(index)) sets the zoomed index to
\* index when the zoomed index differed from index, none included, and clears
\* it to none when it equalled index; in every reachable state at most one
\* image is zoomed, and the zoomed index is none or an image of the content;
\* so after a click on a second image while a first is zoomed only the
\* second is zoomed.
C20_ToggleZoom ==
    /\ [](Cardinality(ZoomedImages) <= 1 /\ zoomed \in ZoomKeys \cup {<<>>})
    /\ [][ev'.op = "imageClick"
             => /\ zoomed' = (IF zoomed = ev'.arg THEN <<>> ELSE ev'.arg)
                /\ (zoomed # ev'.arg => ZoomedImages' = {ev'.arg})]_vars

\* in UserCaseStudy a second image was clicked while a first was zoomed and
\* handleClick was registered; the second is now the one zoomed
C20_Witness ==
    /\ variant = "user"
    /\ ev.op = "imageClick"
    /\ ev.key = "capture"
    /\ ev.pre # <<>>
    /\ ev.pre # ev.arg
    /\ zoomed = ev.arg

\* the zoomed image was clicked while handleClick was registered, and is no
\* longer zoomed
ZoomedImageClicked ==
    /\ variant = "user"
    /\ ev.op = "imageClick"
    /\ ev.key = "capture"
    /\ ev.pre = ev.arg
    /\ zoomed = <<>>

\* a click outside the images dismisses the zoom once handleClick is
\* registered, and only then
OutsideClickDismisses ==
    [][ev'.op = "outsideClick"
          => zoomed' = (IF ev'.key = "capture" THEN <<>> ELSE zoomed)]_vars

\* a handleClick that no cleanup removes is registered
ListenerLeaked == docClick.leaked

\* C21: every listener a navigator subscribes (window resize, window keydown,
\* container scroll) is unsubscribed on every exit path: once the component
\* is unmounted, from whatever state, none of the three is registered, and
\* while the modal is closed no keydown and no scroll listener is registered.
C21_ListenersRemoved ==
    /\ mounted = {} => /\ resizeListeners = 0
                       /\ keydownListeners = 0
                       /\ scrollListeners = 0
    /\ ~isOpen => keydownListeners = 0 /\ scrollListeners = 0

\* the component was unmounted while its modal was showing, with all three
\* listeners registered until then
C21_Witness ==
    /\ ev.op = "unmount"
    /\ ev.key = "open"
    /\ ~caseStudy.null
    /\ mounted = {}
    /\ resizeListeners + keydownListeners + scrollListeners = 0

\* while mounted the navigator has exactly one resize listener, and while
\* its modal is showing exactly one keydown and one scroll listener
ListenersRegistered ==
    /\ mounted # {} => resizeListeners = 1
    /\ Rendered => keydownListeners = 1 /\ scrollListeners = 1

\* some handleClick is registered on document, by the component of either
\* variant, mounted or not
ClickListenerRegistered == docClick.listener = "on" \/ docClick.leaked

\* C22: the document-level click listener that dismisses zoom is always
\* removed again: whenever no image is zoomed or the modal is closed (the
\* unmounted component included), no such listener is registered, whether
\* the zoom was cleared, the modal closed or the component unmounted before
\* or after the 10 ms delay.
C22_ClickListenerRemoved ==
    (zoomed = <<>> \/ ~isOpen \/ mounted = {}) => ~ClickListenerRegistered

\* a listener registered by the timer of the effect that last ran is removed
\* by that effect's cleanup: it is registered only while the modal is open
\* with an image zoomed
DueListenerRemoved ==
    docClick.listener = "on" => (isOpen /\ zoomed # <<>> /\ mounted # {})

\* the listener was registered after its 10 ms and the modal then closed
ClosedAfterDelay ==
    /\ ev.op = "close"
    /\ ev.pre # <<>>
    /\ ~docClick.leaked
    /\ docClick.stale = 0
    /\ docClick.listener = "none"

\* UserCaseStudy's modal is showing with an image zoomed
ZoomShowing == variant = "user" /\ Rendered /\ zoomed # <<>>

ClickDuringDelay ==
    /\ variant = "user"
    /\ isOpen
    /\ ev.op = "outsideClick"
    /\ ev.key = ""
    /\ zoomed # <<>>
    /\ docClick.listener = "timer"

\* a navigation request: a call of navigateTo or a key press
NavigationRequest == ev'.op \in {"navigateTo", "key", "keyUnheard"}

\* C24: while caseStudy is null the navigator renders nothing and every
\* navigation request is a no-op, also with isOpen true: navigateTo with any
\* index and any key press leave currentFrameIndex and the zoom state
\* unchanged and start no scroll, and no key handler is there to run.
C24_NullTreeNoOp ==
    /\ [](caseStudy.null => (~Rendered /\ keydownListeners = 0))
    /\ [][(caseStudy.null /\ NavigationRequest)
             => /\ ev'.op # "key"
                /\ UNCHANGED <<currentFrame, zoomed, scrollTarget, scrollLeft,
                               scrollTop, nav, isOpen>>]_vars

\* navigateTo(0) was called with caseStudy null and isOpen true
C24_Witness ==
    /\ caseStudy.null
    /\ isOpen
    /\ ev.op = "navigateTo"
    /\ ev.arg = <<0>>
    /\ currentFrame = 0

\* a key was pressed with caseStudy null and isOpen true
NullTreeKeyPressed ==
    /\ caseStudy.null
    /\ isOpen
    /\ ev.op = "keyUnheard"
    /\ ev.key = "ArrowRight"

\* C25: after mount and after every resize event, isVerticalLayout is true
\* exactly when the viewport width is below the variant's threshold, 1025 in
\* the frame-per-image variant and 641 in the panel-per-feature variant; a
\* width equal to the threshold gives the horizontal layout.
C25_LayoutThreshold ==
    mounted # {}
        => /\ variant = "admin"
                  => (isVerticalLayout <=> innerWidth < AdminBreakpoint)
           /\ variant = "user"
                  => (isVerticalLayout <=> innerWidth < UserBreakpoint)

\* the window was resized from below the threshold to exactly the threshold,
\* and the layout is now horizontal
C25_Witness ==
    /\ ev.op = "resize"
    /\ ev.key = "layout"
    /\ innerWidth = Breakpoint(variant)
    /\ ~isVerticalLayout

\* C26: in every reachable state of Projects where projectModalOpen is true,
\* currentProject is non-null, for any interleaving of openProjectModal,
\* closeProjectModal and the 200 ms timers closeProjectModal starts.
C26_OpenModalHasProject == projectModalOpen => currentProject # <<>>

\* the step that opens the modal sets the project it was called with
OpenSetsProject ==
    [][ev'.op = "openProject"
          => projectModalOpen' /\ currentProject' = ev'.arg]_vars

\* with no timer of closeProjectModal pending, the open modal has a project
OpenModalHasProjectAtRest ==
    (projectModalOpen /\ projectTimers = 0) => currentProject # <<>>

\* the modals of Projects whose isOpen prop is true
OpenModals ==
    {m \in {"project", "user", "admin"} :
        \/ m = "project" /\ projectModalOpen
        \/ m = "user" /\ userCaseStudyOpen
        \/ m = "admin" /\ adminCaseStudyOpen}

CardOpensOwnModal ==
    [][/\ (ev'.op = "open" /\ ev'.key = "user")
            => /\ userCaseStudyOpen'
               /\ UNCHANGED <<adminCaseStudyOpen, projectModalOpen>>
       /\ (ev'.op = "open" /\ ev'.key = "admin")
            => /\ adminCaseStudyOpen'
               /\ UNCHANGED <<userCaseStudyOpen, projectModalOpen>>
       /\ ev'.op = "openProject"
            => /\ projectModalOpen'
               /\ UNCHANGED <<userCaseStudyOpen, adminCaseStudyOpen>>]_vars

\* the step is a navigateTo call, a run of the scroll handler (or a scroll
\* event it holds back or the end of its window), an arrow-key press or a
\* resize
KeepsZoomStep ==
    \/ ev'.op \in {"navigateTo", "scroll", "scrollHeld", "throttleRelease",
                   "resize"}
    \/ ev'.op = "key" /\ ev'.key \in ForwardKeys \cup BackKeys

C29_AccordionToggle ==
    /\ openSection = <<0>>
    /\ [](Cardinality(OpenSections) <= 1)
    /\ [][ev'.op = "toggleSection" =>
            \E id \in SectionIds :
                /\ ev'.arg = <<id>>
                /\ id \in OpenSections => OpenSections' = {}
                /\ id \notin OpenSections => OpenSections' = {id}
                /\ openSection' = (IF openSection = <<id>> THEN <<>>
                                   ELSE <<id>>)]_vars

\* a section was opened while another one was open, which closed that one
C29_Witness ==
    /\ ev.op = "toggleSection"
    /\ ev.pre # <<>>
    /\ ev.pre # ev.arg
    /\ OpenSections = {ev.arg[1]}

\* a section's preview as shown, without the dots that end it
PreviewWords(id) ==
    LET preview == bioSections[id].preview
        n == Len(preview)
    IN  IF n >= 3 /\ SubSeq(preview, n - 2, n) = <<".", ".", ".">>
        THEN SubSeq(preview, 1, n - 3) ELSE preview

\* C30: the body of an expanded section is the remaining text of the section,
\* so that the preview followed by the body reads as the content, once.
C30_BodyIsRemainder ==
    \A id \in OpenSections :
        PreviewWords(id) \o ExpandedBody(id) = bioSections[id].content

\* with the dots left out of the pattern the same call does cut the preview
\* out of the content
RemainderWithoutDots ==
    \A id \in SectionIds :
        PreviewWords(id) \o replace(bioSections[id].content, PreviewWords(id))
            = bioSections[id].content

\* what the expanded body holds: the whole content, the words of the preview
\* included
BodyRepeatsContent ==
    \A id \in OpenSections :
        /\ Occurrences(bioSections[id].content, bioSections[id].preview) = {}
        /\ ExpandedBody(id) = bioSections[id].content

====
